---- MODULE Spec2Model ----
(***************************************************************************)
(* A model of src/src/main.rs (Fourier epicycle drawer): the Zhang-Suen    *)
(* thinning of skeletonize, the greedy ordering of sort_points, the        *)
(* ranking of fft_to_epicycles and the pipeline of main.                   *)
(*                                                                         *)
(* A grid (GrayImage) is the set of its foreground coordinates <<x, y>>    *)
(* (the code only ever tests a pixel for == 0 or > 0) together with its    *)
(* width and height.                                                       *)
(***************************************************************************)
EXTENDS Integers, Sequences, FiniteSets, Bags, TLC

VARIABLES
    \* skeletonize
    width, height, img, current, next, to_clear, changed, step, todo, snap, pc,
    \* sort_points
    input, points, sorted_points, current_point, sp_result, sp_pc,
    \* fft_to_epicycles
    buffer, num_terms, epicycles, fe_pc,
    \* main
    image_ok, dims, skeleton, edge_points, frame, mn_pc

skVars == <<width, height, img, current, next, to_clear, changed, step, todo, snap, pc>>
spVars == <<input, points, sorted_points, current_point, sp_result, sp_pc>>
feVars == <<buffer, num_terms, epicycles, fe_pc>>
mnVars == <<image_ok, dims, skeleton, edge_points, frame, mn_pc>>
vars == <<skVars, spVars, feVars, mnVars>>

(***************************************************************************)
(* Bounds of the model.                                                    *)
(***************************************************************************)
MaxW == 4
MaxH == 4
MaxFg == 4
\* sort_points: inputs of up to MaxPts points with coordinates in 0 .. MaxCoord
MaxPts == 4
MaxCoord == 1
\* fft_to_epicycles: buffers of up to MaxBins coefficients on the axes, of
\* modulus up to MaxCoef thousandths, and num_terms up to MaxTerms
MaxBins == 3
MaxCoef == 4
MaxTerms == 3
\* main: images of up to MaxImg x MaxImg pixels, MaxFrames frames drawn
MaxImg == 3
MaxFrames == 2

\* u32::MAX, the value of `0 - 1` in wrapping u32 arithmetic. TLC's integers are
\* 32-bit signed, so its largest integer stands for 4294967295; the model only
\* relies on it being larger than every coordinate of a grid.
U32_MAX == 2147483647

\* a - 1 in u32, wrapping (release build)
WrappingSub1(a) == IF a - 1 < 0 THEN U32_MAX ELSE a - 1

Min(a, b) == IF a < b THEN a ELSE b

RECURSIVE SubsetsUpTo(_, _)
SubsetsUpTo(S, k) ==
    IF k = 0 THEN {{}}
    ELSE LET prev == SubsetsUpTo(S, k - 1)
         IN  prev \cup {s \cup {x} : s \in prev, x \in S}

Cells(w, h) == (0 .. w - 1) \X (0 .. h - 1)

InGrid(p, w, h) == p[1] \in 0 .. w - 1 /\ p[2] \in 0 .. h - 1

\* interior coordinates 1 <= x <= width-2, 1 <= y <= height-2
Interior(w, h) == (1 .. w - 2) \X (1 .. h - 2)

(***************************************************************************)
(* Neighbors                                                               *)
(***************************************************************************)
\* u8::from(img.get_pixel(x, y)[0] > 0)
Px(g, x, y) == IF <<x, y>> \in g THEN 1 ELSE 0

\* the coordinates Neighbors::get reads, p2 .. p9
NeighborCoords(x, y) ==
    << <<x, y - 1>>, <<x + 1, y - 1>>, <<x + 1, y>>, <<x + 1, y + 1>>,
       <<x, y + 1>>, <<x - 1, y + 1>>, <<x - 1, y>>, <<x - 1, y - 1>> >>

NeighborsGet(g, x, y) ==
    [p2 |-> Px(g, x, y - 1),     p3 |-> Px(g, x + 1, y - 1),
     p4 |-> Px(g, x + 1, y),     p5 |-> Px(g, x + 1, y + 1),
     p6 |-> Px(g, x, y + 1),     p7 |-> Px(g, x - 1, y + 1),
     p8 |-> Px(g, x - 1, y),     p9 |-> Px(g, x - 1, y - 1)]

\* variant: the transition count is not computed
count_transitions_always_one(n) == 1

count_transitions(n) ==
    LET transitions == << <<n.p2, n.p3>>, <<n.p3, n.p4>>, <<n.p4, n.p5>>,
                          <<n.p5, n.p6>>, <<n.p6, n.p7>>, <<n.p7, n.p8>>,
                          <<n.p8, n.p9>>, <<n.p9, n.p2>> >>
    IN  Cardinality({i \in 1 .. 8 : transitions[i][1] = 0 /\ transitions[i][2] = 1})

\* variant: the sum leaves out the north-west neighbour
count_nonzero_without_p9(n) == n.p2 + n.p3 + n.p4 + n.p5 + n.p6 + n.p7 + n.p8

count_nonzero(n) == n.p2 + n.p3 + n.p4 + n.p5 + n.p6 + n.p7 + n.p8 + n.p9

\* the removal condition of sub-iteration s (lines 259 and 284)
ShouldClear(n, s) ==
    LET a == count_transitions(n)
        b == count_nonzero(n)
    IN  /\ a = 1
        /\ b >= 2
        /\ b <= 6
        /\ IF s = 1
           THEN n.p2 * n.p4 * n.p6 = 0 /\ n.p4 * n.p6 * n.p8 = 0
           ELSE n.p2 * n.p4 * n.p8 = 0 /\ n.p2 * n.p6 * n.p8 = 0

(***************************************************************************)
(* skeletonize                                                             *)
(***************************************************************************)
\* `1..dim - 1` in u32: the subtraction wraps when dim = 0 (release build)
ForRange(dim) == 1 .. (WrappingSub1(dim) - 1)

\* The coordinates of ForRange(dim) up to the first one outside the grid:
\* get_pixel panics there, so no later coordinate of a wrapped range is visited.
LoopCoords(dim) == {c \in 1 .. dim + 1 : c \in ForRange(dim)}

\* `dim - 1` overflows u32
Overflows(dim) == dim - 1 < 0

\* the coordinates the two nested for loops visit
ScanCoords(w, h) == LoopCoords(w) \X LoopCoords(h)

\* The loop iterations kept as steps of the model. An iteration at a background
\* pixel of the grid only runs `continue`; it changes nothing and is not a step
\* of its own.
ScanTodo(cur, w, h) == {p \in ScanCoords(w, h) : ~InGrid(p, w, h) \/ p \in cur}

\* the for-loop headers evaluate an overflowing subtraction
ScanOverflows(w, h) == Overflows(h) \/ (LoopCoords(h) # {} /\ Overflows(w))

\* variant: the pixel is cleared in `current` at once, during the scan
MarkPixelInPlace(cur, tc, p) == [current |-> cur \ {p}, to_clear |-> tc \cup {p}]

\* to_clear.push((x, y)): the pixel is only recorded, `current` is left alone
MarkPixel(cur, tc, p) == [current |-> cur, to_clear |-> tc \cup {p}]

\* changed = true, in either sub-iteration
SetChanged(old, s) == TRUE

SkInit ==
    /\ width \in 0 .. MaxW
    /\ height \in 0 .. MaxH
    /\ img \in SubsetsUpTo(Cells(width, height), MaxFg)
    /\ current = img
    /\ next = img
    /\ to_clear = {}
    /\ changed = TRUE
    /\ step = 0
    /\ todo = {}
    /\ snap = img
    /\ pc = "while"

\* while changed { changed = false; next = current.clone(); to_clear = Vec::new();
\* and the for-loop headers of step 1
WhileEnter ==
    /\ pc = "while"
    /\ changed
    /\ changed' = FALSE
    /\ next' = current
    /\ to_clear' = {}
    /\ step' = 1
    /\ snap' = current
    /\ todo' = ScanTodo(current, width, height)
    /\ pc' = "scan"
    /\ UNCHANGED <<width, height, img, current>>
    /\ UNCHANGED <<spVars, feVars, mnVars>>

\* debug build: `height - 1` (or `width - 1`) panics with "attempt to subtract
\* with overflow"; the release build wraps instead (WhileEnter)
OverflowPanic ==
    /\ pc = "while"
    /\ changed
    /\ ScanOverflows(width, height)
    /\ pc' = "panic_overflow"
    /\ UNCHANGED <<width, height, img, current, next, to_clear, changed, step, todo, snap>>
    /\ UNCHANGED <<spVars, feVars, mnVars>>

\* the loop ends: `current` is returned
WhileExit ==
    /\ pc = "while"
    /\ ~changed
    /\ pc' = "returned"
    /\ UNCHANGED <<width, height, img, current, next, to_clear, changed, step, todo, snap>>
    /\ UNCHANGED <<spVars, feVars, mnVars>>

\* One iteration of the inner for loop, at coordinate p. The loop visits the
\* coordinates in raster order; here any unvisited coordinate may come next.
Visit(p) ==
    /\ pc = "scan"
    /\ p \in todo
    /\ todo' = todo \ {p}
    /\ IF ~InGrid(p, width, height)
       THEN \* current.get_pixel(x, y) panics: index out of bounds
            /\ pc' = "panic_bounds"
            /\ UNCHANGED <<current, to_clear, changed>>
       ELSE IF p \notin current
       THEN \* continue
            UNCHANGED <<current, to_clear, changed, pc>>
       ELSE IF \E i \in 1 .. 8 : ~InGrid(NeighborCoords(p[1], p[2])[i], width, height)
       THEN \* Neighbors::get panics: index out of bounds
            /\ pc' = "panic_bounds"
            /\ UNCHANGED <<current, to_clear, changed>>
       ELSE IF ShouldClear(NeighborsGet(current, p[1], p[2]), step)
       THEN LET m == MarkPixel(current, to_clear, p)
            IN  /\ current' = m.current
                /\ to_clear' = m.to_clear
                /\ changed' = SetChanged(changed, step)
                /\ UNCHANGED pc
       ELSE UNCHANGED <<current, to_clear, changed, pc>>
    /\ UNCHANGED <<width, height, img, next, step, snap>>
    /\ UNCHANGED <<spVars, feVars, mnVars>>

\* after the scan of step 1: clear the marked pixels in `next`,
\* current = next.clone(), to_clear.clear(), and the for-loop headers of step 2
ApplyStep1 ==
    /\ pc = "scan"
    /\ step = 1
    /\ todo = {}
    /\ next' = next \ to_clear
    /\ current' = next'
    /\ to_clear' = {}
    /\ step' = 2
    /\ snap' = current'
    /\ todo' = ScanTodo(current', width, height)
    /\ UNCHANGED <<width, height, img, changed, pc>>
    /\ UNCHANGED <<spVars, feVars, mnVars>>

\* after the scan of step 2: clear the marked pixels in `next`, current = next
ApplyStep2 ==
    /\ pc = "scan"
    /\ step = 2
    /\ todo = {}
    /\ next' = next \ to_clear
    /\ current' = next'
    /\ to_clear' = {}
    /\ pc' = "while"
    /\ UNCHANGED <<width, height, img, changed, step, todo, snap>>
    /\ UNCHANGED <<spVars, feVars, mnVars>>

SkNext ==
    \/ WhileEnter
    \/ OverflowPanic
    \/ WhileExit
    \/ \E p \in todo : Visit(p)
    \/ ApplyStep1
    \/ ApplyStep2

SkIdle ==
    /\ width = 0
    /\ height = 0
    /\ img = {}
    /\ current = {}
    /\ next = {}
    /\ to_clear = {}
    /\ changed = FALSE
    /\ step = 0
    /\ todo = {}
    /\ snap = {}
    /\ pc = "idle"

(***************************************************************************)
(* sort_points                                                             *)
(***************************************************************************)
\* f32::MAX, the initial min_dist_sq. It stands above every squared distance
\* of image coordinates (at most 2 * (2^32)^2 < f32::MAX).
F32_MAX == 2147483647

\* (current_point.0 - point.0).powi(2) + (current_point.1 - point.1).powi(2)
DistSq(a, b) == (a[1] - b[1]) * (a[1] - b[1]) + (a[2] - b[2]) * (a[2] - b[2])

\* variant: dist_sq <= min_dist_sq, the last of several nearest points wins
CloserOrEqual(dist_sq, min_dist_sq) == dist_sq <= min_dist_sq

\* dist_sq < min_dist_sq
Closer(dist_sq, min_dist_sq) == dist_sq < min_dist_sq

\* the for loop over points.iter().enumerate(), from index i on (indices are
\* 1-based here: index i stands for the code's i - 1)
RECURSIVE NearestScan(_, _, _, _, _)
NearestScan(pts, cp, i, nearest_idx, min_dist_sq) ==
    IF i > Len(pts) THEN nearest_idx
    ELSE LET dist_sq == DistSq(cp, pts[i])
         IN  IF Closer(dist_sq, min_dist_sq)
             THEN NearestScan(pts, cp, i + 1, i, dist_sq)
             ELSE NearestScan(pts, cp, i + 1, nearest_idx, min_dist_sq)

\* nearest_idx after the for loop
NearestIdx(pts, cp) == NearestScan(pts, cp, 1, 1, F32_MAX)

\* variant: the last element is dropped and s[i] stays in place
TruncateOnly(s, i) == SubSeq(s, 1, Len(s) - 1)

\* what Vec::swap_remove(i) leaves: the last element takes the place of s[i]
SwapRemove(s, i) ==
    IF i = Len(s) THEN SubSeq(s, 1, Len(s) - 1)
    ELSE [SubSeq(s, 1, Len(s) - 1) EXCEPT ![i] = s[Len(s)]]

\* the while loop of sort_points, run to its end
RECURSIVE SortLoop(_, _, _)
SortLoop(pts, cp, out) ==
    IF pts = <<>> THEN out
    ELSE LET i == NearestIdx(pts, cp)
         IN  SortLoop(SwapRemove(pts, i), pts[i], Append(out, pts[i]))

\* sort_points as a function
sort_points(pts) ==
    IF pts = <<>> THEN pts
    ELSE SortLoop(Tail(pts), Head(pts), <<Head(pts)>>)

RECURSIVE SeqsUpTo(_, _)
SeqsUpTo(S, k) ==
    IF k = 0 THEN {<<>>}
    ELSE LET prev == SeqsUpTo(S, k - 1)
         IN  prev \cup {Append(s, x) : s \in prev, x \in S}

SpInit ==
    /\ input \in SeqsUpTo((0 .. MaxCoord) \X (0 .. MaxCoord), MaxPts)
    /\ points = input
    /\ sorted_points = <<>>
    /\ current_point = <<0, 0>>
    /\ sp_result = <<>>
    /\ sp_pc = "start"

\* if points.is_empty() { return points; }
SortEmpty ==
    /\ sp_pc = "start"
    /\ points = <<>>
    /\ sp_result' = points
    /\ sp_pc' = "returned"
    /\ UNCHANGED <<input, points, sorted_points, current_point>>
    /\ UNCHANGED <<skVars, feVars, mnVars>>

\* current_point = points.remove(0); sorted_points.push(current_point)
SortSeed ==
    /\ sp_pc = "start"
    /\ points # <<>>
    /\ current_point' = Head(points)
    /\ points' = Tail(points)
    /\ sorted_points' = Append(sorted_points, Head(points))
    /\ sp_pc' = "loop"
    /\ UNCHANGED <<input, sp_result>>
    /\ UNCHANGED <<skVars, feVars, mnVars>>

\* one iteration of `while !points.is_empty()`
SortStep ==
    /\ sp_pc = "loop"
    /\ points # <<>>
    /\ LET nearest_idx == NearestIdx(points, current_point)
       IN  /\ current_point' = points[nearest_idx]
           /\ points' = SwapRemove(points, nearest_idx)
           /\ sorted_points' = Append(sorted_points, points[nearest_idx])
    /\ UNCHANGED <<input, sp_result, sp_pc>>
    /\ UNCHANGED <<skVars, feVars, mnVars>>

\* the loop ends: sorted_points is returned
SortReturn ==
    /\ sp_pc = "loop"
    /\ points = <<>>
    /\ sp_result' = sorted_points
    /\ sp_pc' = "returned"
    /\ UNCHANGED <<input, points, sorted_points, current_point>>
    /\ UNCHANGED <<skVars, feVars, mnVars>>

SpNext == SortEmpty \/ SortSeed \/ SortStep \/ SortReturn

SpIdle ==
    /\ input = <<>>
    /\ points = <<>>
    /\ sorted_points = <<>>
    /\ current_point = <<0, 0>>
    /\ sp_result = <<>>
    /\ sp_pc = "idle"

(***************************************************************************)
(* fft_to_epicycles                                                        *)
(*                                                                         *)
(* A Complex<f32> is a pair <<re, im>> of integers, in thousandths (so     *)
(* that MIN_EPICYCLE_AMPLITUDE = 0.001 is 1), and the arithmetic is exact. *)
(* An amplitude amp = |val| / n is kept as (n * amp)^2 = re^2 + im^2: for  *)
(* the epicycles of one buffer it orders them as amp does. A phase         *)
(* val.arg() is kept as the coefficient val whose argument it is.          *)
(***************************************************************************)
MIN_EPICYCLE_AMPLITUDE == 1
NUM_EPICYCLE_TERMS == 500

\* signed frequency of bin k (0-based) of n
Freq(k, n) == IF k <= n \div 2 THEN k ELSE k - n

NormSq(val) == val[1] * val[1] + val[2] * val[2]

\* the closure of .map(): the epicycle of bin k (0-based)
EpicycleOf(k, val, n) == [freq |-> Freq(k, n), amp |-> NormSq(val), phase |-> val]

\* variant: amp >= MIN_EPICYCLE_AMPLITUDE
KeepsAtThreshold(e, n) == e.amp >= (MIN_EPICYCLE_AMPLITUDE * n) * (MIN_EPICYCLE_AMPLITUDE * n)

\* variant: no filter
KeepsAll(e, n) == TRUE

\* .filter(|e| e.amp > MIN_EPICYCLE_AMPLITUDE), with amp = sqrt(e.amp) / n
Keeps(e, n) == e.amp > (MIN_EPICYCLE_AMPLITUDE * n) * (MIN_EPICYCLE_AMPLITUDE * n)

\* buffer.iter().enumerate().map(..).filter(..).collect()
RECURSIVE MapFilter(_, _)
MapFilter(buf, k) ==
    IF k >= Len(buf) THEN <<>>
    ELSE LET e == EpicycleOf(k, buf[k + 1], Len(buf))
         IN  IF Keeps(e, Len(buf)) THEN <<e>> \o MapFilter(buf, k + 1)
             ELSE MapFilter(buf, k + 1)

\* the comparator b.amp.partial_cmp(&a.amp) says Less: a sorts before b
ComesBefore(a, b) == a.amp > b.amp

\* Vec::sort_by is a stable sort: by insertion, an element moves left only
\* past the elements it must come before
RECURSIVE Insert(_, _)
Insert(s, e) ==
    IF s = <<>> THEN <<e>>
    ELSE IF ComesBefore(e, s[Len(s)])
         THEN Append(Insert(SubSeq(s, 1, Len(s) - 1), e), s[Len(s)])
         ELSE Append(s, e)

RECURSIVE SortBy(_)
SortBy(s) ==
    IF s = <<>> THEN <<>>
    ELSE Insert(SortBy(SubSeq(s, 1, Len(s) - 1)), s[Len(s)])

\* Vec::truncate
Truncate(s, k) == SubSeq(s, 1, Min(k, Len(s)))

\* fft_to_epicycles as a function
fft_to_epicycles(buf, terms) == Truncate(SortBy(MapFilter(buf, 0)), terms)

\* coefficients on the axes, of modulus 0 .. MaxCoef
Coefs == {<<r, 0>> : r \in 0 .. MaxCoef} \cup {<<0, i>> : i \in 0 .. MaxCoef}

FeInit ==
    /\ buffer \in SeqsUpTo(Coefs, MaxBins)
    /\ num_terms \in 0 .. MaxTerms
    /\ epicycles = <<>>
    /\ fe_pc = "start"

\* lines 339-355
FeMapFilter ==
    /\ fe_pc = "start"
    /\ epicycles' = MapFilter(buffer, 0)
    /\ fe_pc' = "collected"
    /\ UNCHANGED <<buffer, num_terms>>
    /\ UNCHANGED <<skVars, spVars, mnVars>>

\* line 358
FeSortBy ==
    /\ fe_pc = "collected"
    /\ epicycles' = SortBy(epicycles)
    /\ fe_pc' = "sorted"
    /\ UNCHANGED <<buffer, num_terms>>
    /\ UNCHANGED <<skVars, spVars, mnVars>>

\* lines 359-360
FeTruncate ==
    /\ fe_pc = "sorted"
    /\ epicycles' = Truncate(epicycles, num_terms)
    /\ fe_pc' = "returned"
    /\ UNCHANGED <<buffer, num_terms>>
    /\ UNCHANGED <<skVars, spVars, mnVars>>

FeNext == FeMapFilter \/ FeSortBy \/ FeTruncate

FeIdle ==
    /\ buffer = <<>>
    /\ num_terms = 0
    /\ epicycles = <<>>
    /\ fe_pc = "idle"

(***************************************************************************)
(* skeletonize as a function (grids of positive width and height)          *)
(***************************************************************************)
\* the pixels one sub-iteration marks: to_clear after the scan of step s
Marked(g, w, h, s) ==
    {p \in ScanCoords(w, h) : p \in g /\ ShouldClear(NeighborsGet(g, p[1], p[2]), s)}

\* the grid after one pass of the while loop
Pass(g, w, h) ==
    LET g1 == g \ Marked(g, w, h, 1)
    IN  g1 \ Marked(g1, w, h, 2)

\* the while loop, run until a pass marks nothing
RECURSIVE skeletonize(_, _, _)
skeletonize(g, w, h) ==
    LET g2 == Pass(g, w, h)
    IN  IF g2 = g THEN g ELSE skeletonize(g2, w, h)

(***************************************************************************)
(* main                                                                    *)
(*                                                                         *)
(* Coordinates are in thousandths of a pixel. The forward transform of     *)
(* rustfft is the discrete Fourier transform; it is modelled exactly for   *)
(* the lengths whose roots of unity are Gaussian integers (1, 2 and 4),    *)
(* and a transform of length 0 leaves the empty buffer as it is.           *)
(***************************************************************************)
PathLens == {0, 1, 2, 4}

CAdd(a, b) == <<a[1] + b[1], a[2] + b[2]>>
CMul(a, b) == <<a[1] * b[1] - a[2] * b[2], a[1] * b[2] + a[2] * b[1]>>

\* e^(-2 pi i m / 4), m = 0 .. 3
Root4(m) == CASE m = 0 -> <<1, 0>> [] m = 1 -> <<0, -1>>
              [] m = 2 -> <<-1, 0>> [] m = 3 -> <<0, 1>>

RECURSIVE DftBin(_, _, _)
DftBin(xs, k, j) ==
    IF j >= Len(xs) THEN <<0, 0>>
    ELSE CAdd(CMul(xs[j + 1], Root4((k * j * (4 \div Len(xs))) % 4)),
              DftBin(xs, k, j + 1))

\* fft.process(&mut buffer)
Dft(xs) == [k \in 1 .. Len(xs) |-> DftBin(xs, k - 1, 0)]

\* skeleton.enumerate_pixels(): rows top to bottom, each left to right
RECURSIVE RasterFrom(_, _, _, _)
RasterFrom(g, w, h, i) ==
    IF i >= w * h THEN <<>>
    ELSE LET p == <<i % w, i \div w>>
         IN  (IF p \in g THEN <<p>> ELSE <<>>) \o RasterFrom(g, w, h, i + 1)

\* (x as f32 - center_x, y as f32 - center_y), center = dimension / 2
Centered(p, w, h) == <<1000 * p[1] - 500 * w, 1000 * p[2] - 500 * h>>

\* step 4 of get_edge_points and the call of sort_points
EdgePointsOf(g, w, h) ==
    LET px == RasterFrom(g, w, h, 0)
    IN  sort_points([i \in 1 .. Len(px) |-> Centered(px[i], w, h)])

\* buffer: edge_points as Complex::new(x, y), transformed
BufferOf(pts) == Dft(pts)

MnInit ==
    /\ image_ok \in BOOLEAN
    /\ dims \in (1 .. MaxImg) \X (1 .. MaxImg)
    /\ skeleton \in {g \in SUBSET Cells(dims[1], dims[2]) :
                        /\ Cardinality(g) \in PathLens
                        /\ skeletonize(g, dims[1], dims[2]) = g}
    /\ edge_points = <<>>
    /\ frame = 0
    /\ mn_pc = "start"

\* get_edge_points fails (the image cannot be opened or decoded): main returns Err
GetEdgePointsErr ==
    /\ mn_pc = "start"
    /\ ~image_ok
    /\ mn_pc' = "err"
    /\ UNCHANGED <<image_ok, dims, skeleton, edge_points, frame>>
    /\ UNCHANGED <<skVars, spVars, feVars>>

\* get_edge_points returns Ok(sort_points(points))
GetEdgePointsOk ==
    /\ mn_pc = "start"
    /\ image_ok
    /\ edge_points' = EdgePointsOf(skeleton, dims[1], dims[2])
    /\ mn_pc' = "fft"
    /\ UNCHANGED <<image_ok, dims, skeleton, frame>>
    /\ UNCHANGED <<skVars, spVars, feVars>>

\* lines 40-48: plan_fft_forward(edge_points.len()), buffer, fft.process
FftProcess ==
    /\ mn_pc = "fft"
    /\ buffer' = BufferOf(edge_points)
    /\ mn_pc' = "epicycles"
    /\ UNCHANGED <<num_terms, epicycles, fe_pc>>
    /\ UNCHANGED <<image_ok, dims, skeleton, edge_points, frame>>
    /\ UNCHANGED <<skVars, spVars>>

\* line 50
FftToEpicycles ==
    /\ mn_pc = "epicycles"
    /\ epicycles' = fft_to_epicycles(buffer, NUM_EPICYCLE_TERMS)
    /\ mn_pc' = "render"
    /\ UNCHANGED <<buffer, num_terms, fe_pc>>
    /\ UNCHANGED <<image_ok, dims, skeleton, edge_points, frame>>
    /\ UNCHANGED <<skVars, spVars>>

\* one turn of the rendering loop: draw_frame reads edge_points and epicycles
DrawFrame ==
    /\ mn_pc = "render"
    /\ frame < MaxFrames
    /\ frame' = frame + 1
    /\ UNCHANGED <<image_ok, dims, skeleton, edge_points, mn_pc>>
    /\ UNCHANGED <<skVars, spVars, feVars>>

MnNext == GetEdgePointsErr \/ GetEdgePointsOk \/ FftProcess \/ FftToEpicycles \/ DrawFrame

MnIdle ==
    /\ image_ok = FALSE
    /\ dims = <<0, 0>>
    /\ skeleton = {}
    /\ edge_points = <<>>
    /\ frame = 0
    /\ mn_pc = "idle"

(***************************************************************************)
(* Specifications                                                          *)
(***************************************************************************)
\* skeletonize, on every grid of the bounds (width or height 0 included)
SkeletonizeInit == SkInit /\ SpIdle /\ FeIdle /\ MnIdle

SpecSkeletonize == SkeletonizeInit /\ [][SkNext]_vars

\* sort_points, on every point sequence of the bounds
SortPointsInit == SpInit /\ SkIdle /\ FeIdle /\ MnIdle

SpecSortPoints == SortPointsInit /\ [][SpNext]_vars

\* fft_to_epicycles, on every buffer and num_terms of the bounds
EpicyclesInit == FeInit /\ SkIdle /\ SpIdle /\ MnIdle

SpecEpicycles == EpicyclesInit /\ [][FeNext]_vars

\* main, from the skeleton that get_edge_points computes
MainInit == MnInit /\ SkIdle /\ SpIdle /\ FeIdle

Spec == MainInit /\ [][MnNext]_vars

(***************************************************************************)
(* Helpers of the properties                                               *)
(***************************************************************************)
Abs(a) == IF a < 0 THEN -a ELSE a

Adjacent8(p, q) == p # q /\ Abs(p[1] - q[1]) <= 1 /\ Abs(p[2] - q[2]) <= 1

\* the 8-connected component of S around the pixels C
RECURSIVE ComponentOf(_, _)
ComponentOf(S, C) ==
    LET D == C \cup {q \in S : \E p \in C : Adjacent8(p, q)}
    IN  IF D = C THEN C ELSE ComponentOf(S, D)

\* the 8-connected components of S
RECURSIVE Components(_)
Components(S) ==
    IF S = {} THEN {}
    ELSE LET p == CHOOSE p \in S : TRUE
             C == ComponentOf(S, {p})
         IN  {C} \cup Components(S \ C)

NumComponents(S) == Cardinality(Components(S))

\* how often x occurs in the sequence s
Count(s, x) == Cardinality({i \in 1 .. Len(s) : s[i] = x})

\* s and t hold the same points, each as often
SameMultiset(s, t) ==
    /\ Len(s) = Len(t)
    /\ \A i \in 1 .. Len(s) : Count(s, s[i]) = Count(t, s[i])

\* The removal predicate of sub-iteration s at pixel <<x, y>> of grid g, as the
\* thinning rule states it: one 0 -> 1 transition around the pixel, 2 to 6
\* foreground neighbours, and the corner condition of the sub-iteration.
RemovalPredicate(g, x, y, s) ==
    LET N == Px(g, x, y - 1)   NE == Px(g, x + 1, y - 1)
        E == Px(g, x + 1, y)   SE == Px(g, x + 1, y + 1)
        S == Px(g, x, y + 1)   SW == Px(g, x - 1, y + 1)
        W == Px(g, x - 1, y)   NW == Px(g, x - 1, y - 1)
        ring == <<N, NE, E, SE, S, SW, W, NW, N>>
        transitions == Cardinality({i \in 1 .. 8 : ring[i] < ring[i + 1]})
        nonzero == N + NE + E + SE + S + SW + W + NW
    IN  /\ transitions = 1
        /\ nonzero \in 2 .. 6
        /\ \/ s = 1 /\ N * E * S = 0 /\ E * S * W = 0
           \/ s = 2 /\ N * E * W = 0 /\ N * S * W = 0

\* the bins whose amplitude is strictly above MIN_EPICYCLE_AMPLITUDE
PassingBins(buf) ==
    {k \in 0 .. Len(buf) - 1 :
        NormSq(buf[k + 1]) > (MIN_EPICYCLE_AMPLITUDE * Len(buf)) * (MIN_EPICYCLE_AMPLITUDE * Len(buf))}

\* the number of passing bins that the reference list puts before bin k
Rank(buf, k) ==
    Cardinality({j \in PassingBins(buf) :
                    \/ NormSq(buf[j + 1]) > NormSq(buf[k + 1])
                    \/ NormSq(buf[j + 1]) = NormSq(buf[k + 1]) /\ j < k})

Reference(buf, terms) ==
    [i \in 1 .. Min(terms, Cardinality(PassingBins(buf))) |->
        LET k == CHOOSE k \in PassingBins(buf) : Rank(buf, k) = i - 1
        IN  [freq |-> IF k <= Len(buf) \div 2 THEN k ELSE k - Len(buf),
             amp |-> NormSq(buf[k + 1]),
             phase |-> buf[k + 1]]]

Panicked == pc \in {"panic_overflow", "panic_bounds"}

(***************************************************************************)
(* C1: when the skeleton has no foreground point, main ends in an error    *)
(* and never reaches the rendering loop with an empty point list and an    *)
(* empty epicycle list.                                                    *)
(***************************************************************************)
C1_EmptySkeletonIsAnError ==
    (image_ok /\ skeleton = {}) => mn_pc \notin {"epicycles", "render"}

(***************************************************************************)
(* C2, as claimed: a path of a single point, wherever it lies, gives       *)
(* exactly one epicycle, of frequency 0.                                   *)
(***************************************************************************)
C2_SinglePointOneEpicycle ==
    (mn_pc = "render" /\ Len(edge_points) = 1)
        => (Len(epicycles) = 1 /\ epicycles[1].freq = 0)

(***************************************************************************)
(* C2, amended: a path of a single point farther from the origin than      *)
(* MIN_EPICYCLE_AMPLITUDE gives exactly one epicycle, of frequency 0, with *)
(* the amplitude and phase of the point; a single point at the origin      *)
(* gives no epicycle.                                                      *)
(***************************************************************************)
C2_SinglePointAboveThreshold ==
    (mn_pc = "render" /\ Len(edge_points) = 1)
        => IF NormSq(edge_points[1]) > MIN_EPICYCLE_AMPLITUDE * MIN_EPICYCLE_AMPLITUDE
           THEN epicycles = << [freq |-> 0, amp |-> NormSq(edge_points[1]),
                                phase |-> edge_points[1]] >>
           ELSE epicycles = <<>>

C2_Witness ==
    /\ mn_pc = "render"
    /\ Len(edge_points) = 1
    /\ edge_points[1] # <<0, 0>>
    /\ Len(epicycles) = 1

(***************************************************************************)
(* C3: sort_points returns a permutation of its input: at every step the   *)
(* points already output and the points remaining are together the         *)
(* multiset of the input, and the result has the input's length and        *)
(* multiset.                                                               *)
(***************************************************************************)
C3_Permutation ==
    /\ sp_pc \in {"start", "loop"} => SameMultiset(sorted_points \o points, input)
    /\ sp_pc = "returned" => SameMultiset(sp_result, input)

C3_Witness ==
    /\ sp_pc = "returned"
    /\ Len(sp_result) >= 4
    /\ sp_result # input
    /\ \E i, j \in 1 .. Len(input) : i # j /\ input[i] = input[j]

(***************************************************************************)
(* C4, as claimed: the grid skeletonize returns has as many 8-connected    *)
(* components as its input.                                                *)
(***************************************************************************)
C4_SameComponentCount ==
    pc = "returned" => NumComponents(current) = NumComponents(img)

(***************************************************************************)
(* C4, amended: skeletonize adds no pixel and splits no component (the     *)
(* pixels that survive of one component of the input are 8-connected), so  *)
(* the output has at most as many components as the input; a component     *)
(* can disappear entirely.                                                 *)
(***************************************************************************)
C4_NoComponentSplit ==
    pc = "returned" =>
        /\ current \subseteq img
        /\ \A C \in Components(img) : NumComponents(C \cap current) <= 1
        /\ NumComponents(current) <= NumComponents(img)

C4_Witness ==
    /\ pc = "returned"
    /\ current # img
    /\ current # {}
    /\ NumComponents(current) = NumComponents(img)

(***************************************************************************)
(* C5: the grid skeletonize returns is a fixed point of thinning: no       *)
(* interior foreground pixel of it satisfies the removal condition of      *)
(* sub-iteration 1 or 2, and thinning it again returns it unchanged.       *)
(***************************************************************************)
C5_FixedPoint ==
    pc = "returned" =>
        /\ \A p \in Interior(width, height) \cap current :
              /\ ~RemovalPredicate(current, p[1], p[2], 1)
              /\ ~RemovalPredicate(current, p[1], p[2], 2)
        /\ skeletonize(current, width, height) = current

C5_Witness ==
    /\ pc = "returned"
    /\ current # img
    /\ Interior(width, height) \cap current # {}

(***************************************************************************)
(* C6: fft_to_epicycles returns the reference list: the bins whose         *)
(* amplitude is strictly above MIN_EPICYCLE_AMPLITUDE, by amplitude        *)
(* descending, equal amplitudes in ascending bin order, cut to the first   *)
(* num_terms entries.                                                      *)
(***************************************************************************)
C6_ReferenceList ==
    fe_pc = "returned" =>
        /\ epicycles = Reference(buffer, num_terms)
        /\ Len(epicycles) <= Min(num_terms, Cardinality(PassingBins(buffer)))
        /\ \A i \in 1 .. Len(epicycles) :
              epicycles[i].amp > (MIN_EPICYCLE_AMPLITUDE * Len(buffer)) * (MIN_EPICYCLE_AMPLITUDE * Len(buffer))
        /\ \A i \in 1 .. Len(epicycles) - 1 : epicycles[i].amp >= epicycles[i + 1].amp

\* a bin exactly at the threshold is filtered out, the two kept bins tie, and
\* the truncation cuts the later one
C6_Witness ==
    /\ fe_pc = "returned"
    /\ Len(buffer) = 3
    /\ \E b \in 1 .. 3 : NormSq(buffer[b]) = (MIN_EPICYCLE_AMPLITUDE * 3) * (MIN_EPICYCLE_AMPLITUDE * 3)
    /\ Cardinality(PassingBins(buffer)) = 2
    /\ \A j, k \in PassingBins(buffer) : NormSq(buffer[j + 1]) = NormSq(buffer[k + 1])
    /\ num_terms = 1
    /\ Len(epicycles) = 1

(***************************************************************************)
(* C7: on every grid, of any width and height, skeletonize visits only     *)
(* interior coordinates, reads no pixel outside the grid, wraps no loop    *)
(* bound, and leaves every border pixel as it was.                         *)
(***************************************************************************)
C7_InteriorOnly ==
    /\ ~Panicked
    /\ todo \subseteq Interior(width, height)
    /\ \A p \in Cells(width, height) \ Interior(width, height) :
          p \in current <=> p \in img

(***************************************************************************)
(* C8: on every grid skeletonize eventually returns: from every state      *)
(* that is not its return, a step of the function is possible.             *)
(***************************************************************************)
C8_EventuallyReturns == pc = "returned" \/ ENABLED SkNext

(***************************************************************************)
(* C9: within a sub-iteration every decision is taken against the grid as  *)
(* it stood when the sub-iteration began (snap): `current` and `next` do   *)
(* not change during the scan, and the pixels marked so far are the        *)
(* visited ones that the condition marks in snap, whatever the order of    *)
(* the visits; so the grid returned is the one the batch rule gives.       *)
(***************************************************************************)
C9_BatchApply ==
    /\ pc = "scan" =>
          /\ current = snap
          /\ next = snap
          /\ to_clear = {p \in Marked(snap, width, height, step) : p \notin todo}
    /\ pc = "returned" => current = skeletonize(img, width, height)

\* a pixel is marked while a foreground neighbour of it is still to be visited
C9_Witness ==
    /\ pc = "scan"
    /\ \E q \in to_clear : \E p \in todo : p \in current /\ Adjacent8(p, q)

(***************************************************************************)
(* C10: the first point output is the first input point; each later one is *)
(* a remaining point at minimum squared distance from the point output     *)
(* before it, and of those the one at the lowest index of `points`.        *)
(***************************************************************************)
C10_GreedyNearest ==
    [][ /\ (sp_pc = "start" /\ points # <<>>) => sorted_points' = <<input[1]>>
        /\ (sp_pc = "loop" /\ points # <<>>) =>
              /\ current_point = sorted_points[Len(sorted_points)]
              /\ \E i \in 1 .. Len(points) :
                    /\ sorted_points' = Append(sorted_points, points[i])
                    /\ \A j \in 1 .. Len(points) :
                          DistSq(current_point, points[j]) >= DistSq(current_point, points[i])
                    /\ \A j \in 1 .. i - 1 :
                          DistSq(current_point, points[j]) > DistSq(current_point, points[i])
        /\ (sp_pc' = "returned" /\ input # <<>>) => sp_result'[1] = input[1]
      ]_vars

\* two remaining points tie at the minimum distance, after an earlier removal
\* has reordered `points`
C10_Witness ==
    /\ sp_pc = "loop"
    /\ Len(sorted_points) >= 2
    /\ Len(points) >= 2
    /\ points # SubSeq(input, Len(input) - Len(points) + 1, Len(input))
    /\ \E i, j \in 1 .. Len(points) :
          /\ i < j
          /\ points[i] # points[j]
          /\ DistSq(current_point, points[i]) = DistSq(current_point, points[j])
          /\ \A k \in 1 .. Len(points) :
                DistSq(current_point, points[k]) >= DistSq(current_point, points[i])

====
